---- MODULE Spec2Model ----
(***************************************************************************)
(* RootSense: the dependency resolver of rootsense-gen.py                  *)
(* (generate_rootsense and dependency_ok) over the name-keyed registry of  *)
(* rootsense_utils.py (RSNode).                                            *)
(*                                                                         *)
(* A path is a sequence of segments, <<"root", "sub", "b.h">>; an include  *)
(* text is the sequence of the segments written between the quotes,        *)
(* <<"sub", "b.h">> for #include "sub/b.h".  pathlib compares paths        *)
(* segment by segment and joins a relative text by appending its segments. *)
(*                                                                         *)
(* The recursion of dependency_ok is an explicit stack of frames; the      *)
(* accumulator a call receives (its VS_includes parameter) is the set      *)
(* include_parent_directories of the frame below it, or the driver's       *)
(* VS_includes for a top-level call.                                       *)
(*                                                                         *)
(* The text of a header is the environment's: it is fixed when the file is *)
(* first read (get_includes) and stays the same afterwards.                *)
(***************************************************************************)
EXTENDS Naturals, Sequences, FiniteSets, TLC

VARIABLES
    disk,                \* the header files the scanned directories hold
                         \*   (rootsense-gen.py 55-60)
    tree,                \* global_tree, line 69: base name -> [path, seen, ok]
    contents,            \* path -> include texts, for the files read so far
                         \*   (what get_includes, line 8, returns for the file)
    todo,                \* include_files, line 73, not yet reached by the loop
    order,               \* include_files the loop of line 88 has reached, in
                         \*   discovery order
    stack,               \* the active dependency_ok calls, innermost last
    files_to_be_written, \* the output list, line 76
    VS_includes,         \* the collected directory set, line 78
    reads,               \* path -> number of get_includes calls on it
    pc,                  \* "loop" | "returned" | "raised": where
                         \*   generate_rootsense is
    run,                 \* which run of generate_rootsense over the disk
    first,               \* the ok_to_include attributes the run before left
    regs,                \* the RSNode trees built by insert (from_dir, lines
                         \*   55-59, rootsense_utils.py 152-185), by label
    merged,              \* the last tree RSNode.merge returned, and of what
    looked,              \* the last lookup in a tree built by insert, and
                         \*   what it gave (rootsense_utils.py 272-322, 373)
    threads,             \* where a second thread running the loop of line 88
                         \*   on the same tree stands while it waits, and how
                         \*   often a thread was preempted inside a call
    extract              \* get_includes on the text of one file: how many
                         \*   lines the loop of line 14 has passed, the line
                         \*   it is at, and the list includes

vars == <<disk, tree, contents, todo, order, stack, files_to_be_written,
          VS_includes, reads, pc, run, first, regs, merged, looked,
          threads, extract>>

----------------------------------------------------------------------------
(* Bounds of the model *)

\* the most #include "..." lines one header holds
MaxIncludes == 2

\* the most #include "..." lines all the headers read in one run hold
MaxEdges == 4

\* the most files one RSNode tree is built from
MaxInserts == 3

\* the most times a thread is preempted inside a call of dependency_ok
MaxPreemptions == 1

\* the most #include "..." lines the headers hold that two threads read
MaxRaceEdges == 3

\* the most lines of the file get_includes is run on
MaxLines == 2

\* the most characters of one of its lines (the token #include is one)
MaxLineLen == 6

----------------------------------------------------------------------------
(* The scanned directories *)

Root == <<"root">>
Sub == <<"root", "sub">>

\* the headers on disk: root/a.h, root/sub/b.h, root/c.h; m.h is nowhere
DiskFiles == {Root \o <<"a.h">>, Sub \o <<"b.h">>, Root \o <<"c.h">>}

\* headers on disk of which two have the same name: root/a.h, root/sub/a.h
\* and root/c.h
SameNameFiles == {Root \o <<"a.h">>, Sub \o <<"a.h">>, Root \o <<"c.h">>}

\* the texts an #include "..." line may carry: the plain name of a header
\* (m.h is in no scanned directory) or a path through the subdirectory
PlainTexts == {<<"a.h">>, <<"b.h">>, <<"c.h">>, <<"m.h">>}

PrefixedTexts == {<<"sub", "b.h">>}

\* on a disk d: the headers of the full disk include by plain name only,
\* which keeps the runs over three headers within reach
IncludeTexts(d) ==
    IF d = DiskFiles THEN PlainTexts ELSE PlainTexts \cup PrefixedTexts

----------------------------------------------------------------------------
(* pathlib *)

\* the elements of a sequence
Range(s) == {s[k] : k \in 1..Len(s)}

\* Path.name, and inc_file.split(sep='/')[-1]
BaseName(p) == p[Len(p)]

\* Path.parent
Parent(p) == SubSeq(p, 1, Len(p) - 1)

\* Path(dir) / inc_file
Join(dir, text) == dir \o text

----------------------------------------------------------------------------
(* RSNode, the binary tree of rootsense_utils.py.  None is <<>> and a value *)
(* x that may be None is <<x>>.                                             *)

\* str's order on the file names (_RSItem.__lt__, lines 103-104)
NameOrder == <<"a.h", "b.h", "c.h", "m.h">>

Rank(n) == CHOOSE k \in 1..Len(NameOrder) : NameOrder[k] = n

\* _RSItem.from_path, lines 126-137
from_path(p) == [file_name |-> BaseName(p), file_path |-> p, seen |-> FALSE]

\* RSNode.__init__, lines 147-150
EmptyNode == [node |-> <<>>, left |-> <<>>, right |-> <<>>]

\* the child tree insert goes down into, made if not already present
\* (lines 179-180, 183-184)
ChildOrNew(c) == IF c = <<>> THEN EmptyNode ELSE c[1]

\* insert leaving the item already held where a name is inserted again
\* (line 175 without effect)
RECURSIVE insert_KeepOld(_, _)
insert_KeepOld(self, item) ==
    IF self.node = <<>> THEN [self EXCEPT !.node = <<item>>]
    ELSE IF item.file_name = self.node[1].file_name THEN self
    ELSE IF Rank(item.file_name) < Rank(self.node[1].file_name)
         THEN [self EXCEPT !.left = <<insert_KeepOld(ChildOrNew(@), item)>>]
         ELSE [self EXCEPT !.right = <<insert_KeepOld(ChildOrNew(@), item)>>]

\* insert without lines 174-175: an item of a name already held goes down
\* to the right like a greater one
RECURSIVE insert_DuplicateRight(_, _)
insert_DuplicateRight(self, item) ==
    IF self.node = <<>> THEN [self EXCEPT !.node = <<item>>]
    ELSE IF Rank(item.file_name) < Rank(self.node[1].file_name)
         THEN [self EXCEPT
                 !.left = <<insert_DuplicateRight(ChildOrNew(@), item)>>]
         ELSE [self EXCEPT
                 !.right = <<insert_DuplicateRight(ChildOrNew(@), item)>>]

\* RSNode.insert, lines 168-185, of an _RSItem
RECURSIVE insert(_, _)
insert(self, item) ==
    IF self.node = <<>> THEN [self EXCEPT !.node = <<item>>]
    ELSE IF item.file_name = self.node[1].file_name
         THEN [self EXCEPT !.node = <<item>>]
    ELSE IF Rank(item.file_name) < Rank(self.node[1].file_name)
         THEN [self EXCEPT !.left = <<insert(ChildOrNew(@), item)>>]
         ELSE [self EXCEPT !.right = <<insert(ChildOrNew(@), item)>>]

\* __or__ without lines 342-343: the right subtree of other is left out
RECURSIVE or_NoRight(_, _)
or_NoRight(self, other) ==
    IF other.node = <<>> THEN self
    ELSE LET node_in == insert(self, other.node[1])
         IN IF other.left # <<>> THEN or_NoRight(node_in, other.left[1])
            ELSE node_in

\* RSNode.__or__, lines 331-345: the tree self is after self | other
\* (result = self: the items of other are inserted into self, node first,
\* then the left subtree, then the right one)
RECURSIVE or(_, _)
or(self, other) ==
    IF other.node = <<>> THEN self
    ELSE LET node_in == insert(self, other.node[1])
             left_in == IF other.left # <<>>
                        THEN or(node_in, other.left[1]) ELSE node_in
         IN IF other.right # <<>> THEN or(left_in, other.right[1])
            ELSE left_in

\* merge with the loop of line 355 passing over the first of the others
merge_DropsFirst(others) ==
    LET RECURSIVE Fold(_)
        Fold(k) == IF k <= 1 THEN EmptyNode
                   ELSE or(Fold(k - 1), others[k])
    IN Fold(Len(others))

\* RSNode.merge, lines 353-358: new_tree = cls(), then new_tree |= other
\* for each of the others in turn
RECURSIVE merge(_)
merge(others) ==
    IF others = <<>> THEN EmptyNode
    ELSE or(merge(SubSeq(others, 1, Len(others) - 1)), others[Len(others)])

\* RSNode.size, lines 377-382
RECURSIVE size(_)
size(self) ==
    IF self.node = <<>> THEN 0
    ELSE 1 + (IF self.left # <<>> THEN size(self.left[1]) ELSE 0)
           + (IF self.right # <<>> THEN size(self.right[1]) ELSE 0)

\* __contains__ without lines 293-294: the right subtree is not searched
RECURSIVE contains_NoRight(_, _)
contains_NoRight(self, name) ==
    IF self.node = <<>> THEN FALSE
    ELSE IF self.node[1].file_name = name THEN TRUE
    ELSE IF Rank(name) < Rank(self.node[1].file_name) /\ self.left # <<>>
         THEN contains_NoRight(self.left[1], name)
    ELSE FALSE

\* RSNode.__contains__, lines 281-297, of a name: to_RSItem makes the
\* _RSItem of that name (line 120), which is never None
RECURSIVE contains(_, _)
contains(self, name) ==
    IF self.node = <<>> THEN FALSE
    ELSE IF self.node[1].file_name = name THEN TRUE
    ELSE IF Rank(name) < Rank(self.node[1].file_name) /\ self.left # <<>>
         THEN contains(self.left[1], name)
    ELSE IF Rank(name) > Rank(self.node[1].file_name) /\ self.right # <<>>
         THEN contains(self.right[1], name)
    ELSE FALSE

\* what a call gives: the value it returns, or the exception it raises
Returns(v) == [raised |-> "", value |-> <<v>>]

Raises(e) == [raised |-> e, value |-> <<>>]

\* RSNode.__getitem__, lines 308-322, of a name
RECURSIVE getitem(_, _)
getitem(self, name) ==
    IF self.node = <<>> \/ ~contains(self, name) THEN Raises("KeyError")
    ELSE IF name = self.node[1].file_name THEN Returns(self.node[1])
    ELSE IF Rank(name) < Rank(self.node[1].file_name)
         THEN getitem(self.left[1], name)
         ELSE getitem(self.right[1], name)

\* the trees the model builds and merges
Labels == {"A", "B", "C"}

\* a tree as from_dir starts it (line 265), and the files inserted so far
NewRegistry == [tree |-> EmptyNode, inserts |-> <<>>]

----------------------------------------------------------------------------
(* RSNode, as the resolver sees it: one _RSItem per base name *)

\* _RSItem.from_path: a fresh item, not seen, no ok_to_include attribute
NewItem(p) == [path |-> p, seen |-> FALSE, ok |-> <<>>]

\* the tree RSNode.merge leaves after inserting every path of ps
TreeOf(ps) == [n \in {BaseName(p) : p \in ps} |->
                 NewItem(CHOOSE p \in ps : BaseName(p) = n)]

\* the trees RSNode.merge may leave after inserting every path of ps: of
\* the paths of one base name the tree holds the one inserted last, and
\* rglob lists the files in no fixed order
TreesOf(ps) ==
    {t \in [{BaseName(p) : p \in ps} -> {NewItem(p) : p \in ps}] :
        \A n \in DOMAIN t : BaseName(t[n].path) = n}

\* item in tree
Contains(tr, n) == n \in DOMAIN tr

has_been_seen(tr, n) == Contains(tr, n) /\ tr[n].seen

\* mark_as_seen leaving the flag as it is
mark_as_seen_Nothing(tr, n) == tr

\* mark_as_seen putting a new item of the name, seen, in place of the item
\* held
mark_as_seen_NewItem(tr, n) ==
    [tr EXCEPT ![n] = [path |-> <<n>>, seen |-> TRUE, ok |-> <<>>]]

mark_as_seen(tr, n) == [tr EXCEPT ![n].seen = TRUE]

get_item_path(tr, n) == tr[n].path

\* whether tree.is_ok_to_include(n) raises AttributeError
ok_is_unset(tr, n) == tr[n].ok = <<>>

is_ok_to_include(tr, n) == tr[n].ok[1]

set_ok_to_include(tr, n, status) == [tr EXCEPT ![n].ok = <<status>>]

andl(bs) == \A k \in 1..Len(bs) : bs[k]

----------------------------------------------------------------------------
(* get_includes on the text of a file.  A line is a sequence of characters; *)
(* the token #include counts as one, and "a" is any character that is no   *)
(* space, no double quote and no <.                                        *)

Chars == {"#include", " ", "\"", "<", "a"}

\* the lines f.readlines() may give, line 10
RawLines == UNION {[1..k -> Chars] : k \in 0..MaxLineLen}

\* c in s, for a character c
In(c, s) == \E k \in 1..Len(s) : s[k] = c

\* s.strip(), lines 16 and 25: without the spaces at its two ends
strip(s) ==
    LET Solid == {k \in 1..Len(s) : s[k] # " "}
    IN IF Solid = {} THEN <<>>
       ELSE SubSeq(s, CHOOSE k \in Solid : \A j \in Solid : k <= j,
                      CHOOSE k \in Solid : \A j \in Solid : j <= k)

\* s.startswith('#include'), line 18
startswith_include(s) == Len(s) > 0 /\ s[1] = "#include"

\* s.split('"', 2)[1], line 25, for s that holds a double quote: what is
\* between the first double quote and the second, or the end of s
split_1(s) ==
    LET Quotes == {k \in 1..Len(s) : s[k] = "\""}
        q1 == CHOOSE k \in Quotes : \A j \in Quotes : k <= j
        Later == {k \in Quotes : k > q1}
        q2 == IF Later = {} THEN Len(s) + 1
              ELSE CHOOSE k \in Later : \A j \in Later : k <= j
    IN SubSeq(s, q1 + 1, q2 - 1)

\* lines 14-30: what one pass of the loop makes of the list includes
LoopBody(includes, raw) ==
    LET line == strip(raw)
    IN IF ~(startswith_include(line) /\ (In("<", line) \/ In("\"", line)))
       THEN includes
       ELSE IF In("\"", line)
            THEN LET included_file == strip(split_1(line))
                 IN IF In(" ", included_file) THEN includes
                    ELSE Append(includes, included_file)
            ELSE includes

\* no line of the file has been passed, line 12
NoText == [n |-> 0, line |-> <<>>, includes |-> <<>>]

----------------------------------------------------------------------------
(* the include lists get_includes gives the resolver *)

\* the include lists a header may hold
IncludeLists ==
    UNION {[1..k -> PlainTexts \cup PrefixedTexts] : k \in 0..MaxIncludes}

\* the #include lines of the files read so far
EdgesRead == LET RECURSIVE Sum(_)
                 Sum(S) == IF S = {} THEN 0
                           ELSE LET p == CHOOSE q \in S : TRUE
                                IN Len(contents[p]) + Sum(S \ {p})
             IN Sum(DOMAIN contents)

\* the #include lines the headers may hold in all: fewer where a second
\* thread works on the tree
EdgeBound == IF threads.waiting = <<>> THEN MaxEdges ELSE MaxRaceEdges

\* what get_includes(p) may return: the text read before, or a new one
MayRead(p) ==
    IF p \in DOMAIN contents THEN {contents[p]}
    ELSE {l \in IncludeLists :
            /\ Range(l) \subseteq IncludeTexts(disk)
            /\ EdgesRead + Len(l) <= EdgeBound}

----------------------------------------------------------------------------
(* dependency_ok *)

\* include_parent_directories with the test of line 133 turned round
\* (== for !=)
include_parent_directories_Inverted(tr, parent_dir, included_files) ==
    {Parent(get_item_path(tr, BaseName(included_files[k]))) :
        k \in {j \in 1..Len(included_files) :
                 /\ Contains(tr, BaseName(included_files[j]))
                 /\ Join(parent_dir, included_files[j])
                      = get_item_path(tr, BaseName(included_files[j]))}}

\* include_parent_directories without the test of line 133: every include
\* found in the tree gives its directory
include_parent_directories_All(tr, parent_dir, included_files) ==
    {Parent(get_item_path(tr, BaseName(included_files[k]))) :
        k \in {j \in 1..Len(included_files) :
                 Contains(tr, BaseName(included_files[j]))}}

\* lines 126-135: the directories of the includes not reachable by
\* simple relative inclusion from parent_dir
include_parent_directories(tr, parent_dir, included_files) ==
    {Parent(get_item_path(tr, BaseName(included_files[k]))) :
        k \in {j \in 1..Len(included_files) :
                 /\ Contains(tr, BaseName(included_files[j]))
                 /\ Join(parent_dir, included_files[j])
                      # get_item_path(tr, BaseName(included_files[j]))}}

\* CallKind without the return of line 112: a call on a file that is seen
\* and has no ok_to_include goes on at line 114
CallKind_CircularEnters(tr, n) ==
    IF ~Contains(tr, n) THEN "absent"
    ELSE IF has_been_seen(tr, n) /\ ~ok_is_unset(tr, n) THEN "cached"
         ELSE "enter"

\* CallKind without the return of line 109: a call on a file with a
\* recorded verdict goes on at line 114
CallKind_CachedEnters(tr, n) ==
    IF ~Contains(tr, n) THEN "absent"
    ELSE IF has_been_seen(tr, n) /\ ok_is_unset(tr, n) THEN "circular"
         ELSE "enter"

\* CallKind with the test of line 104 sending a file that is seen and
\* has no recorded verdict to the return of line 102
CallKind_UndecidedIsAbsent(tr, n) ==
    IF ~Contains(tr, n) THEN "absent"
    ELSE IF has_been_seen(tr, n)
         THEN IF ok_is_unset(tr, n) THEN "absent" ELSE "cached"
         ELSE "enter"

\* lines 99-112: how a call on base name n ends before any work is done
\*   "absent"   not in the tree                    -> False
\*   "cached"   seen, ok_to_include present        -> its value
\*   "circular" seen, ok_to_include not present    -> True
\*   "enter"    otherwise the call goes on at line 114
CallKind(tr, n) ==
    IF ~Contains(tr, n) THEN "absent"
    ELSE IF has_been_seen(tr, n)
         THEN IF ok_is_unset(tr, n) THEN "circular" ELSE "cached"
         ELSE "enter"

\* EarlyValue with line 112 returning False: a circular include counts
\* as unresolvable
EarlyValue_CircularFalse(tr, n) ==
    CASE CallKind(tr, n) = "absent" -> FALSE
      [] CallKind(tr, n) = "cached" -> is_ok_to_include(tr, n)
      [] CallKind(tr, n) = "circular" -> FALSE

\* EarlyValue with line 102 returning True: a file that is in no tree
\* counts as resolvable
EarlyValue_AbsentTrue(tr, n) ==
    CASE CallKind(tr, n) = "absent" -> TRUE
      [] CallKind(tr, n) = "cached" -> is_ok_to_include(tr, n)
      [] CallKind(tr, n) = "circular" -> TRUE

\* EarlyValue with line 109 returning the opposite of the recorded value
EarlyValue_CachedNegated(tr, n) ==
    CASE CallKind(tr, n) = "absent" -> FALSE
      [] CallKind(tr, n) = "cached" -> ~is_ok_to_include(tr, n)
      [] CallKind(tr, n) = "circular" -> TRUE

\* EarlyValue with line 109 returning True whatever was recorded
EarlyValue_CachedTrue(tr, n) ==
    CASE CallKind(tr, n) = "absent" -> FALSE
      [] CallKind(tr, n) = "cached" -> TRUE
      [] CallKind(tr, n) = "circular" -> TRUE

\* lines 101-112: the value an early return gives
EarlyValue(tr, n) ==
    CASE CallKind(tr, n) = "absent" -> FALSE
      [] CallKind(tr, n) = "cached" -> is_ok_to_include(tr, n)
      [] CallKind(tr, n) = "circular" -> TRUE

\* lines 114-135: the frame of a call that goes on, given the text read
NewFrame(tr, n, included_files) ==
    [file |-> n,
     includes |-> included_files,
     i |-> 1,
     res |-> <<>>,
     dirs |-> include_parent_directories(
                  tr, Parent(get_item_path(tr, n)), included_files)]

\* lines 114-122, 126-135
Enter(n) ==
    LET p == get_item_path(tree, n) IN
    \E l \in MayRead(p) :
        /\ tree' = mark_as_seen(tree, n)
        /\ contents' = IF p \in DOMAIN contents THEN contents
                       ELSE [q \in DOMAIN contents \cup {p} |->
                               IF q = p THEN l ELSE contents[q]]
        /\ reads' = [q \in DOMAIN reads \cup {p} |->
                       IF q = p
                       THEN (IF p \in DOMAIN reads THEN reads[p] ELSE 0) + 1
                       ELSE reads[q]]
        /\ stack' = Append(stack, NewFrame(tree, n, l))

\* Raised with the failed read taken for an unresolvable file
Raised_AsUnresolvable(tr, n) ==
    set_ok_to_include(mark_as_seen(tr, n), n, FALSE)

\* the tree after lines 114-122 when open(), line 9, raises: the file is
\* marked as seen (line 115) and line 138 is never reached
Raised(tr, n) == mark_as_seen(tr, n)

\* lines 114-122 with get_includes raising: nothing in dependency_ok or
\* generate_rootsense catches the exception (the try of line 108 spans
\* line 109 only), so every active call is left and the run is over
Fail(n) ==
    LET p == get_item_path(tree, n) IN
    /\ tree' = Raised(tree, n)
    /\ reads' = [q \in DOMAIN reads \cup {p} |->
                   IF q = p
                   THEN (IF p \in DOMAIN reads THEN reads[p] ELSE 0) + 1
                   ELSE reads[q]]
    /\ stack' = <<>>
    /\ pc' = "raised"
    /\ UNCHANGED contents

Top == stack[Len(stack)]

\* the base name the comprehension of line 137 is at
NextChild == BaseName(Top.includes[Top.i])

\* Exhausted stopping at the first call that returned False
Exhausted_AtFirstFalse(frame) ==
    \/ frame.i > Len(frame.includes)
    \/ \E k \in 1..Len(frame.res) : ~frame.res[k]

\* line 137: the list comprehension has called dependency_ok on every
\* include of the file (all() is given the finished list)
Exhausted(frame) == frame.i > Len(frame.includes)

InComprehension == stack # <<>> /\ ~Exhausted(Top)

\* a run of generate_rootsense changes neither the disk, nor what an
\* earlier run left, nor the trees that were merged into global_tree
RunFrame ==
    UNCHANGED <<disk, run, first, regs, merged, looked, threads, extract>>

\* the comprehension of line 137 takes the value v of one call
Took(st, v) ==
    [st EXCEPT ![Len(st)].res = Append(@, v), ![Len(st)].i = @ + 1]

\* ChildAbsent entering the name in the tree as a file found unresolvable
ChildAbsent_AddsEntry ==
    /\ pc = "loop" /\ InComprehension
    /\ CallKind(tree, NextChild) = "absent"
    /\ stack' = Took(stack, EarlyValue(tree, NextChild))
    /\ tree' = [n \in DOMAIN tree \cup {NextChild} |->
                  IF n = NextChild
                  THEN [path |-> <<NextChild>>, seen |-> TRUE,
                        ok |-> <<FALSE>>]
                  ELSE tree[n]]
    /\ RunFrame
    /\ UNCHANGED <<contents, todo, order, files_to_be_written,
                   VS_includes, reads, pc>>

\* line 137, a call that returns at line 102
ChildAbsent ==
    /\ pc = "loop" /\ InComprehension
    /\ CallKind(tree, NextChild) = "absent"
    /\ stack' = Took(stack, EarlyValue(tree, NextChild))
    /\ RunFrame
    /\ UNCHANGED <<tree, contents, todo, order, files_to_be_written,
                   VS_includes, reads, pc>>

\* line 137, a call that returns at line 109
ChildCached ==
    /\ pc = "loop" /\ InComprehension
    /\ CallKind(tree, NextChild) = "cached"
    /\ stack' = Took(stack, EarlyValue(tree, NextChild))
    /\ RunFrame
    /\ UNCHANGED <<tree, contents, todo, order, files_to_be_written,
                   VS_includes, reads, pc>>

\* ChildCircular recording the value it returns
ChildCircular_RecordsTrue ==
    /\ pc = "loop" /\ InComprehension
    /\ CallKind(tree, NextChild) = "circular"
    /\ stack' = Took(stack, EarlyValue(tree, NextChild))
    /\ tree' = set_ok_to_include(tree, NextChild, TRUE)
    /\ RunFrame
    /\ UNCHANGED <<contents, todo, order, files_to_be_written,
                   VS_includes, reads, pc>>

\* line 137, a call that returns at line 112
ChildCircular ==
    /\ pc = "loop" /\ InComprehension
    /\ CallKind(tree, NextChild) = "circular"
    /\ stack' = Took(stack, EarlyValue(tree, NextChild))
    /\ RunFrame
    /\ UNCHANGED <<tree, contents, todo, order, files_to_be_written,
                   VS_includes, reads, pc>>

\* line 137, a call that goes on at line 114
ChildEnter ==
    /\ pc = "loop" /\ InComprehension
    /\ CallKind(tree, NextChild) = "enter"
    /\ Enter(NextChild)
    /\ RunFrame
    /\ UNCHANGED <<todo, order, files_to_be_written, VS_includes, pc>>

\* line 137, a call in which get_includes raises
ChildRaises ==
    /\ pc = "loop" /\ InComprehension
    /\ CallKind(tree, NextChild) = "enter"
    /\ Fail(NextChild)
    /\ RunFrame
    /\ UNCHANGED <<todo, order, files_to_be_written, VS_includes>>

\* Collected with the test of line 141 negated
Collected_WhenNotOk(acc, ok, dirs) == IF ~ok THEN acc \cup dirs ELSE acc

\* Collected without the test of line 141
Collected_Always(acc, ok, dirs) == acc \cup dirs

\* lines 141-142: VS_includes |= include_parent_directories, only if ok
Collected(acc, ok, dirs) == IF ok THEN acc \cup dirs ELSE acc

\* AllOk taking a file without includes for unresolvable
AllOk_NeedsAnInclude(res) == res # <<>> /\ andl(res)

\* AllOk asking for one True value only
AllOk_Any(res) == \E k \in 1..Len(res) : res[k]

\* AllOk taking the value of the last call for the whole
AllOk_LastOnly(res) == res = <<>> \/ res[Len(res)]

\* line 137: ok_to_include is the conjunction of the values the calls of
\* the comprehension returned
AllOk(res) == andl(res)

\* Recorded keeping only the value True
Recorded_OnlyTrue(tr, file, ok) ==
    IF ok THEN set_ok_to_include(tr, file, ok) ELSE tr

\* line 138: the value is recorded on the item of the file
Recorded(tr, file, ok) == set_ok_to_include(tr, file, ok)

\* Written putting the file at the head of the list
Written_Prepend(out, ok, file) == IF ok THEN <<file>> \o out ELSE out

\* lines 92-93: the driver appends the file it asked about, if ok
Written(out, ok, file) == IF ok THEN Append(out, file) ELSE out

\* lines 137-144 once the comprehension is through, and the caller's use
\* of the value: line 137 of the calling frame, or lines 92-93
Return ==
    /\ pc = "loop" /\ stack # <<>> /\ Exhausted(Top)
    /\ LET ok_to_include == AllOk(Top.res)
           rest == SubSeq(stack, 1, Len(stack) - 1)
       IN /\ tree' = Recorded(tree, Top.file, ok_to_include)
          /\ IF rest = <<>>
             THEN /\ VS_includes' =
                        Collected(VS_includes, ok_to_include, Top.dirs)
                  /\ files_to_be_written' =
                        Written(files_to_be_written, ok_to_include,
                                order[Len(order)])
                  /\ stack' = rest
             ELSE /\ stack' = Took(
                        [rest EXCEPT ![Len(rest)].dirs =
                            Collected(@, ok_to_include, Top.dirs)],
                        ok_to_include)
                  /\ UNCHANGED <<VS_includes, files_to_be_written>>
    /\ RunFrame
    /\ UNCHANGED <<contents, todo, order, reads, pc>>

----------------------------------------------------------------------------
(* generate_rootsense, lines 88-97 *)

\* lines 90-91: the loop reaches a file already seen
DriverSkip ==
    /\ pc = "loop" /\ stack = <<>>
    /\ \E f \in todo :
        /\ has_been_seen(tree, BaseName(f))
        /\ todo' = todo \ {f}
        /\ order' = Append(order, f)
    /\ RunFrame
    /\ UNCHANGED <<tree, contents, stack, files_to_be_written, VS_includes,
                   reads, pc>>

\* line 92: the loop reaches a file not seen and calls dependency_ok,
\* which goes on at line 114 (every header of the include path is in the
\* tree of that path, so the call never returns at line 102)
DriverCall ==
    /\ pc = "loop" /\ stack = <<>>
    /\ \E f \in todo :
        /\ CallKind(tree, BaseName(f)) = "enter"
        /\ todo' = todo \ {f}
        /\ order' = Append(order, f)
        /\ Enter(BaseName(f))
    /\ RunFrame
    /\ UNCHANGED <<files_to_be_written, VS_includes, pc>>

\* line 92: the call of the loop, in which get_includes raises
DriverRaises ==
    /\ pc = "loop" /\ stack = <<>>
    /\ \E f \in todo :
        /\ CallKind(tree, BaseName(f)) = "enter"
        /\ todo' = todo \ {f}
        /\ order' = Append(order, f)
        /\ Fail(BaseName(f))
    /\ RunFrame
    /\ UNCHANGED <<files_to_be_written, VS_includes>>

\* lines 94-97
DriverReturn ==
    /\ pc = "loop" /\ stack = <<>> /\ todo = {}
    /\ pc' = "returned"
    /\ RunFrame
    /\ UNCHANGED <<tree, contents, todo, order, stack, files_to_be_written,
                   VS_includes, reads>>

----------------------------------------------------------------------------

\* generate_rootsense runs in the one thread of main, line 62
OneThread == [waiting |-> <<>>, preemptions |-> 0]

\* lines 69-78: the merged tree of the scanned files, the headers found
\* under the include path, the empty output list and directory set
Init ==
    /\ disk \in SUBSET DiskFiles
    /\ tree = TreeOf(disk)
    /\ contents = <<>>
    /\ todo \in SUBSET disk
    /\ order = <<>>
    /\ stack = <<>>
    /\ files_to_be_written = <<>>
    /\ VS_includes = {}
    /\ reads = <<>>
    /\ pc = "loop"
    /\ run = 1
    /\ first = <<>>
    /\ regs = [r \in Labels |-> NewRegistry]
    /\ merged = <<>>
    /\ looked = <<>>
    /\ threads = OneThread
    /\ extract = NoText

Next ==
    \/ DriverSkip
    \/ DriverCall
    \/ DriverRaises
    \/ ChildRaises
    \/ ChildAbsent
    \/ ChildCached
    \/ ChildCircular
    \/ ChildEnter
    \/ Return
    \/ DriverReturn

Spec == Init /\ [][Next]_vars

\* every header on disk is a header of the include path: a run over fewer
\* headers is a run over all of them up to the point where the loop of
\* line 88 has reached the fewer
InitFair == Init /\ todo = disk

\* the interpreter runs the loop of line 88 and the calls it makes on to
\* their end: a step that can be taken is taken
SpecFair == InitFair /\ [][Next]_vars /\ WF_vars(Next)

----------------------------------------------------------------------------
(* A run over an include path in which two headers have the same name *)

\* lines 69-78 with root/a.h and root/sub/a.h under the include path: the
\* tree holds one of the two paths for a.h, include_files holds both
InitSameName ==
    /\ disk = SameNameFiles
    /\ tree \in TreesOf(disk)
    /\ contents = <<>>
    /\ todo \in SUBSET disk
    /\ order = <<>>
    /\ stack = <<>>
    /\ files_to_be_written = <<>>
    /\ VS_includes = {}
    /\ reads = <<>>
    /\ pc = "loop"
    /\ run = 1
    /\ first = <<>>
    /\ regs = [r \in Labels |-> NewRegistry]
    /\ merged = <<>>
    /\ looked = <<>>
    /\ threads = OneThread
    /\ extract = NoText

SpecSameName == InitSameName /\ [][Next]_vars

----------------------------------------------------------------------------
(* Two runs of generate_rootsense over the same disk *)

\* the ok_to_include attribute of every item, <<>> where it is not set
Verdicts == [n \in DOMAIN tree |-> tree[n].ok]

\* lines 67-78 again: generate_rootsense is called a second time on the
\* same directories (same files, same texts, same include_path); rglob
\* may list the headers in another order
Rerun ==
    /\ pc = "returned" /\ run = 1
    /\ run' = 2
    /\ first' = Verdicts
    /\ tree' = TreeOf(disk)
    /\ todo' = {order[k] : k \in 1..Len(order)}
    /\ order' = <<>>
    /\ stack' = <<>>
    /\ files_to_be_written' = <<>>
    /\ VS_includes' = {}
    /\ reads' = <<>>
    /\ pc' = "loop"
    /\ UNCHANGED <<disk, contents, regs, merged, looked, threads, extract>>

NextTwoRuns == Next \/ Rerun

SpecTwoRuns == Init /\ [][NextTwoRuns]_vars

----------------------------------------------------------------------------
(* Two threads on one tree: each runs the loop of line 88 over headers of  *)
(* its own, with its own output list and directory set; the tree and the   *)
(* files are shared.  The variables of the run are those of the thread     *)
(* that is running.                                                        *)

\* what a thread keeps while the other one runs
Suspended ==
    [stack |-> stack, todo |-> todo, order |-> order,
     files_to_be_written |-> files_to_be_written,
     VS_includes |-> VS_includes, pc |-> pc]

\* the running thread is inside a call of dependency_ok
InCall == pc = "loop" /\ stack # <<>>

\* the interpreter hands over to the waiting thread, which has not come to
\* its end; inside a call this is a preemption
Switch ==
    /\ threads.waiting # <<>>
    /\ threads.waiting.pc = "loop"
    /\ InCall => threads.preemptions < MaxPreemptions
    /\ threads' = [waiting |-> Suspended,
                   preemptions |-> threads.preemptions
                                     + (IF InCall THEN 1 ELSE 0)]
    /\ stack' = threads.waiting.stack
    /\ todo' = threads.waiting.todo
    /\ order' = threads.waiting.order
    /\ files_to_be_written' = threads.waiting.files_to_be_written
    /\ VS_includes' = threads.waiting.VS_includes
    /\ pc' = threads.waiting.pc
    /\ UNCHANGED <<disk, tree, contents, reads, run, first, regs, merged,
                   looked, extract>>

\* the three headers are on disk; either one thread runs the loop over
\* all of them, or each of two threads has one of the headers of the root
\* directory to call dependency_ok on (either thread may be the first to
\* run: Switch is free between calls)
InitRace ==
    /\ disk = DiskFiles
    /\ tree = TreeOf(disk)
    /\ contents = <<>>
    /\ \/ todo = disk /\ threads = OneThread
       \/ /\ todo = {Root \o <<"a.h">>}
          /\ threads = [waiting |-> [stack |-> <<>>,
                                     todo |-> {Root \o <<"c.h">>},
                                     order |-> <<>>,
                                     files_to_be_written |-> <<>>,
                                     VS_includes |-> {}, pc |-> "loop"],
                        preemptions |-> 0]
    /\ order = <<>>
    /\ stack = <<>>
    /\ files_to_be_written = <<>>
    /\ VS_includes = {}
    /\ reads = <<>>
    /\ pc = "loop"
    /\ run = 1
    /\ first = <<>>
    /\ regs = [r \in Labels |-> NewRegistry]
    /\ merged = <<>>
    /\ looked = <<>>
    /\ extract = NoText

NextRace == Next \/ Switch

SpecRace == InitRace /\ [][NextRace]_vars

----------------------------------------------------------------------------
(* Building trees with insert and merging them, rootsense_utils.py *)

\* the files under the directories tree r is built from; directory A holds
\* two files named a.h
RegistryFiles(r) ==
    CASE r = "A" -> {<<"A", "a.h">>, <<"A", "sub", "a.h">>,
                     <<"A", "b.h">>, <<"A", "c.h">>}
      [] r = "B" -> {<<"B", "a.h">>, <<"B", "b.h">>, <<"B", "c.h">>}
      [] r = "C" -> {<<"C", "a.h">>, <<"C", "b.h">>, <<"C", "c.h">>}

\* the resolver does not run while the trees are built and merged
ResolverFrame ==
    UNCHANGED <<disk, tree, contents, todo, order, stack,
                files_to_be_written, VS_includes, reads, pc, run, first,
                threads, extract>>

\* insert_dir, line 228: self.insert(file), for one more file of the
\* listing of line 217
InsertFile ==
    /\ merged = <<>>
    /\ \E r \in Labels : \E f \in RegistryFiles(r) :
        /\ Len(regs[r].inserts) < MaxInserts
        /\ f \notin Range(regs[r].inserts)
        /\ regs' = [regs EXCEPT ![r] =
                       [tree |-> insert(@.tree, from_path(f)),
                        inserts |-> Append(@.inserts, f)]]
    /\ UNCHANGED merged
    /\ looked' = <<>>
    /\ ResolverFrame

\* name in tree, tree[name] and tree.size() on a tree built so far, for a
\* name of a file or the name of no file
Lookup ==
    /\ \E r \in Labels : \E name \in Range(NameOrder) :
        looked' = [label |-> r,
                   name |-> name,
                   found |-> contains(regs[r].tree, name),
                   got |-> getitem(regs[r].tree, name),
                   size |-> size(regs[r].tree)]
    /\ UNCHANGED <<regs, merged>>
    /\ ResolverFrame

\* the lists of distinct trees a call of merge is given
ArgLists ==
    {a \in UNION {[1..k -> Labels] : k \in 0..Cardinality(Labels)} :
        \A j, k \in 1..Len(a) : j # k => a[j] # a[k]}

\* an argument <<r>> is tree r; an argument of several labels is the tree
\* an earlier merge of these trees returned
Flat(args) ==
    LET RECURSIVE Cat(_)
        Cat(k) == IF k = 0 THEN <<>> ELSE Cat(k - 1) \o args[k]
    IN Cat(Len(args))

\* RSNode.merge(*others) on trees built by insert
MergeTrees ==
    /\ merged = <<>>
    /\ \E a \in ArgLists :
        merged' = [args |-> [k \in 1..Len(a) |-> <<a[k]>>],
                   tree |-> merge([k \in 1..Len(a) |-> regs[a[k]].tree])]
    /\ UNCHANGED <<regs, looked>>
    /\ ResolverFrame

\* the last merge was of two trees built by insert
MergedTwo ==
    /\ merged # <<>>
    /\ Len(merged.args) = 2
    /\ \A k \in 1..2 : Len(merged.args[k]) = 1

\* RSNode.merge(m, z), m the tree the last merge returned
MergeLeft ==
    /\ MergedTwo
    /\ \E z \in Labels \ Range(Flat(merged.args)) :
        merged' = [args |-> <<Flat(merged.args), <<z>>>>,
                   tree |-> merge(<<merged.tree, regs[z].tree>>)]
    /\ UNCHANGED <<regs, looked>>
    /\ ResolverFrame

\* RSNode.merge(z, m), m the tree the last merge returned
MergeRight ==
    /\ MergedTwo
    /\ \E z \in Labels \ Range(Flat(merged.args)) :
        merged' = [args |-> <<<<z>>, Flat(merged.args)>>,
                   tree |-> merge(<<regs[z].tree, merged.tree>>)]
    /\ UNCHANGED <<regs, looked>>
    /\ ResolverFrame

\* no directory is scanned for headers to resolve
InitMerge ==
    /\ disk = {}
    /\ Init

NextMerge ==
    \/ InsertFile
    \/ MergeTrees
    \/ MergeLeft
    \/ MergeRight

SpecMerge == InitMerge /\ [][NextMerge]_vars

\* result = x | y for two trees built by insert: __or__ takes self for the
\* result (line 335), inserts into it (lines 337-343) and returns it, so
\* that the object returned is x and x holds what was inserted
OrTrees ==
    /\ merged = <<>>
    /\ \E x \in Labels : \E y \in Labels \ {x} :
        /\ regs' = [regs EXCEPT
                       ![x].tree = or(regs[x].tree, regs[y].tree)]
        /\ merged' = [args |-> <<<<x>>, <<y>>>>,
                      tree |-> or(regs[x].tree, regs[y].tree),
                      object |-> x,
                      self_before |-> regs[x].tree]
    /\ UNCHANGED looked
    /\ ResolverFrame

NextOr == InsertFile \/ OrTrees

SpecOr == InitMerge /\ [][NextOr]_vars

----------------------------------------------------------------------------
(* get_includes run on a file, line by line *)

\* get_includes changes nothing of the resolver and of the trees
ExtractFrame ==
    UNCHANGED <<disk, tree, contents, todo, order, stack,
                files_to_be_written, VS_includes, reads, pc, run, first,
                regs, merged, looked, threads>>

\* line 14: the loop takes the next line of the file, whatever it is
NextLine ==
    /\ extract.line = <<>>
    /\ extract.n < MaxLines
    /\ \E raw \in RawLines :
        extract' = [extract EXCEPT !.line = <<raw>>]
    /\ ExtractFrame

\* lines 16-30 on the line taken
PassLine ==
    /\ extract.line # <<>>
    /\ extract' = [n |-> extract.n + 1,
                   line |-> <<>>,
                   includes |-> LoopBody(extract.includes, extract.line[1])]
    /\ ExtractFrame

NextExtract == NextLine \/ PassLine

SpecExtract == InitMerge /\ [][NextExtract]_vars

\* trees are built and looked into
NextLookup ==
    \/ InsertFile
    \/ Lookup

SpecLookup == InitMerge /\ [][NextLookup]_vars

----------------------------------------------------------------------------
(* What the claims speak of *)

\* the item of base name n has its text read
WasRead(n) == get_item_path(tree, n) \in DOMAIN contents

\* the include texts of the registry file of base name n, once read
Includes(n) == IF WasRead(n) THEN contents[get_item_path(tree, n)] ELSE <<>>

\* the base names its include lines name
Targets(n) == {BaseName(t) : t \in Range(Includes(n))}

\* it has an include target absent from the registry
MissingTarget(n) == \E t \in Targets(n) : ~Contains(tree, t)

RECURSIVE Grow(_)
Grow(S) ==
    LET T == S \cup UNION {Targets(x) \cap DOMAIN tree : x \in S}
    IN IF T = S THEN S ELSE Grow(T)

\* the registry files n includes, directly or transitively, and n itself
Closure(n) == Grow({n})

\* include line k of registry file n names a registry file that the
\* relative join from n's directory does not reach
NotReachable(n, k) ==
    LET t == Includes(n)[k] IN
    /\ Contains(tree, BaseName(t))
    /\ Join(Parent(get_item_path(tree, n)), t)
         # get_item_path(tree, BaseName(t))

\* the registry directory of the file include line k of n names
TargetDir(n, k) == Parent(get_item_path(tree, BaseName(Includes(n)[k])))

\* the first top-level call of the run has returned
FirstCallOver == Len(order) = 1 /\ stack = <<>>

\* a call on the registry file of base name n is active
OnStack(n) == \E k \in 1..Len(stack) : stack[k].file = n

\* the paths on which get_includes raised
FailedReads == {p \in DOMAIN reads : p \notin DOMAIN contents}

----------------------------------------------------------------------------
(* C1 *)

\* C1: no file that includes, directly or transitively, a file with an
\* include target absent from the registry has resolvable = true recorded.
C1_NothingOverMissingIsTrue ==
    \A n \in DOMAIN tree :
        (\E g \in Closure(n) : MissingTarget(g)) => tree[n].ok # <<TRUE>>

----------------------------------------------------------------------------
(* C2 *)

\* the three registry files form the cycle n -> succ[n], member h also
\* includes one name absent from the registry, and nothing else is included
ThreeCycle(succ, h) ==
    /\ \A n \in DOMAIN tree : succ[n] # n /\ succ[succ[n]] # n
    /\ \A n \in DOMAIN tree :
        /\ WasRead(n)
        /\ succ[n] \in Targets(n)
        /\ Len(Includes(n)) = IF n = h THEN 2 ELSE 1
        /\ MissingTarget(n) <=> n = h

ThreeCycleWithMissing ==
    /\ Cardinality(DOMAIN tree) = 3
    /\ \E succ \in [DOMAIN tree -> DOMAIN tree] :
         \E h \in DOMAIN tree : ThreeCycle(succ, h)

\* C2: in a three-file include cycle one member of which also includes a
\* missing file, all three members have verdict false when the driver is
\* through, whichever member holds the missing include and whichever member
\* the driver enters first.
C2_CycleWithMissingAllFalse ==
    (pc = "returned" /\ ThreeCycleWithMissing)
        => \A n \in DOMAIN tree : tree[n].ok = <<FALSE>>

----------------------------------------------------------------------------
(* C3 *)

\* x includes only y and y includes only x
TwoCycle(x, y) ==
    /\ x # y
    /\ WasRead(x) /\ Len(Includes(x)) = 1 /\ Targets(x) = {y}
    /\ WasRead(y) /\ Len(Includes(y)) = 1 /\ Targets(y) = {x}

\* C3: for registry files x and y that include only each other, a top-level
\* call on either one ends (its stack never holds more than the two of them,
\* neither is ever recorded false) and leaves verdict true for both.
C3_TwoCycleBothTrue ==
    \A x \in DOMAIN tree : \A y \in DOMAIN tree :
        TwoCycle(x, y) =>
            /\ tree[x].ok # <<FALSE>>
            /\ (stack # <<>> /\ stack[1].file \in {x, y}) => Len(stack) <= 2
            /\ (stack = <<>> /\ has_been_seen(tree, x))
                   => tree[x].ok = <<TRUE>> /\ tree[y].ok = <<TRUE>>

\* the top-level call on a.h, in a cycle with b.h, has returned
C3_Witness ==
    /\ Contains(tree, "a.h") /\ Contains(tree, "b.h")
    /\ TwoCycle("a.h", "b.h")
    /\ FirstCallOver /\ order[1] = Root \o <<"a.h">>
    /\ tree["a.h"].ok = <<TRUE>> /\ tree["b.h"].ok = <<TRUE>>

----------------------------------------------------------------------------
(* C4 *)

\* C4: two runs over the same registry and include graph that differ only
\* in the top-level discovery order record the same verdict for every file.
C4_SameVerdictsInBothRuns ==
    (run = 2 /\ pc = "returned") => Verdicts = first

----------------------------------------------------------------------------
(* C5 *)

\* C5: when the driver is through, every header of the target include tree
\* whose recorded verdict is true is in the output list.
C5_EveryTrueHeaderWritten ==
    pc = "returned" =>
        \A f \in Range(order) :
            tree[BaseName(f)].ok = <<TRUE>>
                => f \in Range(files_to_be_written)

----------------------------------------------------------------------------
(* C6, C7 *)

\* the disk holds root/a.h, whose only include is "b.h", and root/sub/b.h,
\* which includes nothing; both are headers of the include path, and the
\* driver is through
TwoFileScenario ==
    /\ disk = {Root \o <<"a.h">>, Sub \o <<"b.h">>}
    /\ pc = "returned"
    /\ Range(order) = disk
    /\ contents[Root \o <<"a.h">>] = << <<"b.h">> >>
    /\ contents[Sub \o <<"b.h">>] = <<>>

\* C6: in the two-file scenario the output list holds both a.h and b.h,
\* whichever of the two the driver reaches first.
C6_BothFilesWritten ==
    TwoFileScenario => Range(files_to_be_written) = disk

\* C7 as stated: in the two-file scenario the collected directory set is
\* empty.
C7_DirectorySetEmpty ==
    TwoFileScenario => VS_includes = {}

\* C7 as amended: in the two-file scenario the collected directory set is
\* exactly {root/sub}: "b.h" joined to a.h's directory is root/b.h, which is
\* not the registry path root/sub/b.h.
C7_DirectorySetIsSub ==
    TwoFileScenario => VS_includes = {Sub}

C7_Witness ==
    /\ TwoFileScenario
    /\ order = <<Root \o <<"a.h">>, Sub \o <<"b.h">>>>
    /\ tree["a.h"].ok = <<TRUE>>

----------------------------------------------------------------------------
(* C8 *)

\* C8: when the driver is through, for every file f of the output list and
\* every file g in f's transitive include closure, every include of g that
\* the relative join does not reach has its target's directory in the
\* collected set.
C8_CollectedSetSufficient ==
    pc = "returned" =>
        \A f \in Range(files_to_be_written) :
            \A g \in Closure(BaseName(f)) :
                \A k \in 1..Len(Includes(g)) :
                    NotReachable(g, k) => TargetDir(g, k) \in VS_includes

----------------------------------------------------------------------------
(* C9 *)

\* x's only include is the plain text of one name
OnePlainInclude(x) == Len(Includes(x)) = 1 /\ Len(Includes(x)[1]) = 1

\* C9: let x's only include be the plain text "y".  If the registry holds y
\* in another directory than x's and y has no includes, every top-level call
\* on x (it returns true, so x is written) leaves y's directory in the
\* collected set; if the registry does not hold y, a top-level call on x
\* from empty accumulators leaves the collected set without any directory.
C9_DirectoryOfTheInclude ==
    \A x \in DOMAIN tree :
        OnePlainInclude(x) =>
            LET y == BaseName(Includes(x)[1]) IN
            /\ ( /\ get_item_path(tree, x) \in Range(files_to_be_written)
                 /\ Contains(tree, y)
                 /\ Parent(get_item_path(tree, y))
                      # Parent(get_item_path(tree, x))
                 /\ WasRead(y) /\ Includes(y) = <<>> )
                   => Parent(get_item_path(tree, y)) \in VS_includes
            /\ ( /\ FirstCallOver /\ order[1] = get_item_path(tree, x)
                 /\ ~Contains(tree, y) )
                   => VS_includes = {} /\ tree[x].ok = <<FALSE>>

\* the call on root/a.h, which includes "b.h" of root/sub, has returned
C9_Witness ==
    /\ FirstCallOver /\ order[1] = Root \o <<"a.h">>
    /\ Includes("a.h") = << <<"b.h">> >>
    /\ Contains(tree, "b.h") /\ WasRead("b.h") /\ Includes("b.h") = <<>>
    /\ Sub \in VS_includes

----------------------------------------------------------------------------
(* C10 *)

\* C10: every directory of the collected set is the registry directory of a
\* file named by an include, not reachable by the relative join, of a file
\* whose recorded verdict is true.
C10_OnlyDirectoriesOfTrueFiles ==
    \A d \in VS_includes :
        \E n \in DOMAIN tree :
            /\ tree[n].ok = <<TRUE>>
            /\ \E k \in 1..Len(Includes(n)) :
                   NotReachable(n, k) /\ TargetDir(n, k) = d

\* a file was recorded false although one of its includes is not reachable
\* by the relative join, and a directory was collected from another file
C10_Witness ==
    /\ pc = "returned"
    /\ VS_includes # {}
    /\ \E n \in DOMAIN tree :
           /\ tree[n].ok = <<FALSE>>
           /\ \E k \in 1..Len(Includes(n)) : NotReachable(n, k)

----------------------------------------------------------------------------
(* C11 *)

\* C11: a registry file with an include target whose base name is absent
\* from the registry is never recorded true and never in the output list;
\* once the call that read it is over, false is recorded for it and the run
\* goes on: an exception ends the run only where reading a file failed.
C11_MissingTargetIsFalse ==
    /\ \A n \in DOMAIN tree :
        (WasRead(n) /\ MissingTarget(n)) =>
            /\ tree[n].ok # <<TRUE>>
            /\ get_item_path(tree, n) \notin Range(files_to_be_written)
            /\ (OnStack(n) \/ tree[n].ok = <<FALSE>> \/ pc = "raised")
    /\ pc = "raised" => FailedReads # {}

\* the top-level call on root/a.h, which includes m.h, has returned False
\* and the loop goes on
C11_Witness ==
    /\ FirstCallOver /\ pc = "loop" /\ order[1] = Root \o <<"a.h">>
    /\ <<"m.h">> \in Range(Includes("a.h"))
    /\ tree["a.h"].ok = <<FALSE>>
    /\ files_to_be_written = <<>>
    /\ todo # {}

----------------------------------------------------------------------------
(* C12 *)

\* C12: a registry file whose text holds no include is never recorded false,
\* and true is recorded for it as soon as the call that read it is over,
\* whatever the other files of the registry are and hold.
C12_NoIncludesIsTrue ==
    \A n \in DOMAIN tree :
        (WasRead(n) /\ Includes(n) = <<>>) =>
            /\ tree[n].ok # <<FALSE>>
            /\ (OnStack(n) \/ tree[n].ok = <<TRUE>>)

\* c.h, without includes, is true although the file that includes it, a.h,
\* is false for its other include m.h
C12_Witness ==
    /\ Contains(tree, "a.h") /\ Contains(tree, "c.h")
    /\ WasRead("c.h") /\ Includes("c.h") = <<>>
    /\ tree["c.h"].ok = <<TRUE>>
    /\ Includes("a.h") = << <<"c.h">>, <<"m.h">> >>
    /\ tree["a.h"].ok = <<FALSE>>

----------------------------------------------------------------------------
(* C13 *)

\* C13: a call on a file whose verdict is already recorded gives its caller
\* the recorded verdict, does not call get_includes, and leaves the seen
\* flag and the verdict of every item of the tree as they are.
C13_CachedCallChangesNothing ==
    [][(pc = "loop" /\ InComprehension
          /\ CallKind(tree, NextChild) = "cached")
         => /\ stack' = Took(stack, is_ok_to_include(tree, NextChild))
            /\ reads' = reads
            /\ contents' = contents
            /\ tree' = tree]_vars

\* the call on a.h, which includes b.h, is over; the later call on c.h has
\* asked about b.h again and has its verdict, and b.h was read once
C13_Witness ==
    /\ order = <<Root \o <<"a.h">>, Root \o <<"c.h">>>>
    /\ Includes("a.h") = << <<"b.h">> >>
    /\ Len(stack) = 1 /\ Top.file = "c.h"
    /\ Top.includes = << <<"b.h">> >> /\ Top.i = 2
    /\ Contains(tree, "b.h") /\ Top.res = tree["b.h"].ok
    /\ reads[Sub \o <<"b.h">>] = 1

----------------------------------------------------------------------------
(* C14 *)

\* C14: in every state of a run an item with a recorded verdict is marked
\* as seen, and no step of the run changes a verdict that is recorded.
C14_VerdictOnceAfterSeen ==
    /\ [](\A n \in DOMAIN tree : tree[n].ok # <<>> => tree[n].seen)
    /\ [][\A n \in DOMAIN tree :
            tree[n].ok # <<>> => tree'[n].ok = tree[n].ok]_vars

\* the run is through with a.h recorded false and b.h, which a.h includes
\* and the loop met later, recorded true
C14_Witness ==
    /\ pc = "returned"
    /\ order = <<Root \o <<"a.h">>, Sub \o <<"b.h">>>>
    /\ tree["a.h"] = [path |-> Root \o <<"a.h">>, seen |-> TRUE,
                       ok |-> <<FALSE>>]
    /\ tree["b.h"] = [path |-> Sub \o <<"b.h">>, seen |-> TRUE,
                       ok |-> <<TRUE>>]
    /\ <<"b.h">> \in Range(Includes("a.h"))

----------------------------------------------------------------------------
(* C15 *)

\* where x is in a sequence that holds it
Position(seq, x) == CHOOSE k \in 1..Len(seq) : seq[k] = x

\* C15: the output list holds only headers the loop has reached, on disk
\* under the include path, with verdict true, and holds them in the order
\* in which the loop reached them (so each at most once).
C15_OutputInDiscoveryOrder ==
    /\ \A k \in 1..Len(files_to_be_written) :
        /\ files_to_be_written[k] \in Range(order) \cap disk
        /\ tree[BaseName(files_to_be_written[k])].ok = <<TRUE>>
    /\ \A j, k \in 1..Len(files_to_be_written) :
        j < k => Position(order, files_to_be_written[j])
                   < Position(order, files_to_be_written[k])

\* the loop reached a.h, b.h, c.h in this order; a.h and c.h are written,
\* and b.h, which the call on a.h went through, is not
C15_Witness ==
    /\ pc = "returned"
    /\ order = <<Root \o <<"a.h">>, Sub \o <<"b.h">>, Root \o <<"c.h">>>>
    /\ files_to_be_written = <<Root \o <<"a.h">>, Root \o <<"c.h">>>>
    /\ <<"b.h">> \in Range(Includes("a.h"))

----------------------------------------------------------------------------
(* C16 *)

\* C16: whatever the files include (each other, themselves), the active
\* calls of dependency_ok are never more than the registry has files, and
\* every run comes to its end with no call active: generate_rootsense
\* returns, or a failed read has ended the run.
C16_EveryRunEnds ==
    /\ [](Len(stack) <= Cardinality(DOMAIN tree))
    /\ <>(/\ stack = <<>>
           /\ \/ pc = "returned"
              \/ pc = "raised" /\ FailedReads # {})

\* the run has returned over a.h, which includes itself and b.h, and
\* b.h and c.h, which include each other
C16_Witness ==
    /\ pc = "returned" /\ stack = <<>>
    /\ Cardinality(DOMAIN tree) = 3
    /\ Includes("a.h") = << <<"a.h">>, <<"b.h">> >>
    /\ Includes("b.h") = << <<"c.h">> >>
    /\ Includes("c.h") = << <<"b.h">> >>

----------------------------------------------------------------------------
(* C17 *)

\* C17: once get_includes has raised on a file, the run is over with the
\* exception: no call is active, the file (seen since line 115) has no
\* verdict recorded, and generate_rootsense never returns its lists.
C17_FailedReadEndsRun ==
    /\ [](FailedReads # {} =>
            /\ pc = "raised" /\ stack = <<>>
            /\ \A p \in FailedReads :
                   tree[BaseName(p)].seen /\ tree[BaseName(p)].ok = <<>>)
    /\ [][pc = "raised" => pc' = "raised"]_vars

\* the call on a.h read it and went on to b.h, whose read failed: the run
\* is over, nothing is written, and neither file has a verdict
C17_Witness ==
    /\ pc = "raised"
    /\ order = <<Root \o <<"a.h">>>>
    /\ Includes("a.h") = << <<"b.h">> >>
    /\ FailedReads = {Sub \o <<"b.h">>}
    /\ tree["a.h"].ok = <<>> /\ tree["b.h"].ok = <<>>
    /\ files_to_be_written = <<>>

----------------------------------------------------------------------------
(* C18, C19, C20: the trees as sets of entries *)

\* the items the nodes of a tree hold
RECURSIVE Items(_)
Items(t) ==
    (IF t.node = <<>> THEN {} ELSE {t.node[1]})
      \cup (IF t.left = <<>> THEN {} ELSE Items(t.left[1]))
      \cup (IF t.right = <<>> THEN {} ELSE Items(t.right[1]))

\* its entries, name and path, and its keys
Entries(t) == {<<i.file_name, i.file_path>> : i \in Items(t)}

Keys(t) == {i.file_name : i \in Items(t)}

\* the entries of the trees of labels ls whose name no later tree of ls holds
LastWins(ls) ==
    UNION {{e \in Entries(regs[ls[k]].tree) :
              \A j \in (k + 1)..Len(ls) : e[1] \notin Keys(regs[ls[j]].tree)}
           : k \in 1..Len(ls)}

\* C18: the tree merge(A, B) returns has as keys the keys of A and those of
\* B; a name both hold has B's path and no other, and a name only one of
\* them holds has the path it has there; A | B holds the same entries.
C18_MergeIsUnionArgumentWins ==
    MergedTwo =>
        LET A == regs[merged.args[1][1]].tree
            B == regs[merged.args[2][1]].tree
            M == merged.tree
        IN /\ Keys(M) = Keys(A) \cup Keys(B)
           /\ \A e \in Entries(B) : e \in Entries(M)
           /\ \A e \in Entries(A) : e[1] \notin Keys(B) => e \in Entries(M)
           /\ Cardinality(Entries(M)) = Cardinality(Keys(M))
           /\ Entries(or(A, B)) = Entries(M)

\* merge(A, B) of A, built from A/b.h and A/a.h, and B, built from B/c.h and
\* B/a.h: a.h has B's path
C18_Witness ==
    /\ MergedTwo
    /\ merged.args = << <<"A">>, <<"B">> >>
    /\ regs["A"].inserts = << <<"A", "b.h">>, <<"A", "a.h">> >>
    /\ regs["B"].inserts = << <<"B", "c.h">>, <<"B", "a.h">> >>
    /\ Entries(merged.tree) = { <<"a.h", <<"B", "a.h">>>>,
                                <<"b.h", <<"A", "b.h">>>>,
                                <<"c.h", <<"B", "c.h">>>> }

\* C19: merge(A, B) and merge(B, A) hold the same keys; a name both A and B
\* hold has B's path in the first and A's path in the second.
C19_MergeCommutesOnKeys ==
    MergedTwo =>
        LET A == regs[merged.args[1][1]].tree
            B == regs[merged.args[2][1]].tree
            BA == merge(<<B, A>>)
        IN /\ Keys(merged.tree) = Keys(BA)
           /\ \A e \in Entries(B) : e \in Entries(merged.tree)
           /\ \A e \in Entries(A) : e \in Entries(BA)

\* merge(B, A) of trees that share a.h and c.h and hold them under
\* different paths: the merged tree has A's paths, and B's for b.h
C19_Witness ==
    /\ MergedTwo
    /\ merged.args = << <<"B">>, <<"A">> >>
    /\ Keys(regs["A"].tree) = {"a.h", "c.h"}
    /\ Keys(regs["B"].tree) = {"a.h", "b.h", "c.h"}
    /\ Entries(merged.tree) = Entries(regs["A"].tree)
                                \cup { <<"b.h", <<"B", "b.h">>>> }

\* the three trees merged, in one call or in two
MergedThree == merged # <<>> /\ Len(Flat(merged.args)) = 3

\* C20: for trees A, B, C, the trees merge(merge(A, B), C), merge(A,
\* merge(B, C)) and merge(A, B, C) hold the same entries: every name one of
\* the three holds, with the path of the last of A, B, C that holds it.
C20_MergeFoldsAndAssociates ==
    MergedThree =>
        LET ls == Flat(merged.args)
            A == regs[ls[1]].tree
            B == regs[ls[2]].tree
            C == regs[ls[3]].tree
        IN /\ Entries(merged.tree) = LastWins(ls)
           /\ Entries(merge(<<merge(<<A, B>>), C>>)) = LastWins(ls)
           /\ Entries(merge(<<A, merge(<<B, C>>)>>)) = LastWins(ls)
           /\ Entries(merge(<<A, B, C>>)) = LastWins(ls)

\* merge(A, m) with m the tree merge(B, C) returned; a.h is in all three
\* trees, b.h in A and B, c.h in A only
C20_Witness ==
    /\ merged # <<>>
    /\ merged.args = << <<"A">>, <<"B", "C">> >>
    /\ Keys(regs["A"].tree) = {"a.h", "b.h", "c.h"}
    /\ Keys(regs["B"].tree) = {"a.h", "b.h"}
    /\ Keys(regs["C"].tree) = {"a.h"}
    /\ Entries(merged.tree) = { <<"a.h", <<"C", "a.h">>>>,
                                <<"b.h", <<"B", "b.h">>>>,
                                <<"c.h", <<"A", "c.h">>>> }

----------------------------------------------------------------------------
(* C21, C22 *)

\* of the files inserted, the last one of each name
LastInserted(ins) ==
    {ins[k] : k \in {j \in 1..Len(ins) :
                       \A i \in (j + 1)..Len(ins) :
                           BaseName(ins[i]) # BaseName(ins[j])}}

\* the names inserted
NamesInserted(ins) == {BaseName(f) : f \in Range(ins)}

\* C21: a tree built by inserts holds, for each name inserted, the path of
\* the last file of that name inserted and nothing else, and size() is the
\* number of names inserted.
C21_OneEntryPerNameLastPath ==
    /\ \A r \in Labels :
        Entries(regs[r].tree)
          = {<<BaseName(f), f>> : f \in LastInserted(regs[r].inserts)}
    /\ looked # <<>> =>
        looked.size = Cardinality(NamesInserted(regs[looked.label].inserts))

\* A/a.h, A/b.h and A/sub/a.h were inserted in this order: the tree has two
\* entries and a.h has the path A/sub/a.h
C21_Witness ==
    /\ looked # <<>> /\ looked.label = "A" /\ looked.name = "a.h"
    /\ regs["A"].inserts = << <<"A", "a.h">>, <<"A", "b.h">>,
                              <<"A", "sub", "a.h">> >>
    /\ looked.size = 2
    /\ looked.got = Returns(from_path(<<"A", "sub", "a.h">>))

\* C22: name in tree is True for the names inserted and False for every
\* other name, on the empty tree too; tree[name] returns the item of that
\* name when the name was inserted and raises KeyError when it was not.
C22_LookupByName ==
    looked # <<>> =>
        LET ins == regs[looked.label].inserts IN
        /\ looked.found <=> looked.name \in NamesInserted(ins)
        /\ looked.found =>
              /\ looked.got.raised = ""
              /\ looked.got.value[1].file_name = looked.name
              /\ looked.got.value[1].file_path \in LastInserted(ins)
        /\ ~looked.found => looked.got = Raises("KeyError")

\* m.h is looked up in the tree built from B/b.h, B/a.h, B/c.h
C22_Witness ==
    /\ looked # <<>> /\ looked.label = "B" /\ looked.name = "m.h"
    /\ regs["B"].inserts = << <<"B", "b.h">>, <<"B", "a.h">>,
                              <<"B", "c.h">> >>
    /\ ~looked.found
    /\ looked.got = Raises("KeyError")

----------------------------------------------------------------------------
(* C23 *)

\* the registry files seen that have no verdict recorded
InProgress == {n \in DOMAIN tree : tree[n].seen /\ tree[n].ok = <<>>}

\* the files of the active calls
StackFiles == {stack[k].file : k \in 1..Len(stack)}

\* C23: while a run goes on and when it has returned, the files seen without
\* a recorded verdict are the files of the active calls; so with no call
\* active every file seen has a verdict, and every file the loop of line 88
\* skips as seen has one.
C23_InProgressIsOnStack ==
    pc # "raised" =>
        /\ InProgress = StackFiles
        /\ stack = <<>> =>
              \A f \in todo : has_been_seen(tree, BaseName(f))
                                => ~ok_is_unset(tree, BaseName(f))

\* the second top-level call, on a.h, is in its call on b.h; c.h has its
\* verdict from the first
C23_Witness ==
    /\ pc = "loop"
    /\ order = <<Root \o <<"c.h">>, Root \o <<"a.h">>>>
    /\ Len(stack) = 2 /\ stack[1].file = "a.h" /\ stack[2].file = "b.h"
    /\ InProgress = {"a.h", "b.h"}
    /\ tree["c.h"].seen /\ tree["c.h"].ok # <<>>
    /\ Sub \o <<"b.h">> \in todo

----------------------------------------------------------------------------
(* C24 *)

\* C24: a call on a file that is seen and has no verdict recorded gives its
\* caller True, records nothing, does not call get_includes, and leaves the
\* tree, the caller's directory set and the driver's directory set as they
\* are.
C24_CircularCallChangesNothing ==
    [][(pc = "loop" /\ InComprehension
          /\ CallKind(tree, NextChild) = "circular")
         => /\ NextChild \in StackFiles
            /\ stack' = Took(stack, TRUE)
            /\ stack'[Len(stack)].dirs = Top.dirs
            /\ tree' = tree
            /\ reads' = reads
            /\ contents' = contents
            /\ VS_includes' = VS_includes]_vars

\* the call on b.h, made by the call on a.h, has asked about a.h and has
\* True for it; a.h has no verdict
C24_Witness ==
    /\ Len(stack) = 2
    /\ stack[1].file = "a.h" /\ stack[2].file = "b.h"
    /\ stack[2].includes = << <<"a.h">> >>
    /\ stack[2].i = 2 /\ stack[2].res = <<TRUE>>
    /\ tree["a.h"].seen /\ tree["a.h"].ok = <<>>
    /\ reads[Root \o <<"a.h">>] = 1

----------------------------------------------------------------------------
(* C25 *)

\* C25: a call on a name that is not in the tree gives its caller False and
\* changes nothing: the tree has the same items with the same flags and
\* verdicts, and the caller's directory set and the driver's are as they
\* were.
C25_AbsentCallChangesNothing ==
    [][(pc = "loop" /\ InComprehension
          /\ CallKind(tree, NextChild) = "absent")
         => /\ stack' = Took(stack, FALSE)
            /\ stack'[Len(stack)].dirs = Top.dirs
            /\ DOMAIN tree' = DOMAIN tree
            /\ tree' = tree
            /\ reads' = reads
            /\ VS_includes' = VS_includes]_vars

\* the call on a.h has asked about m.h, which is in no directory, and has
\* False for it; the tree holds no m.h
C25_Witness ==
    /\ Len(stack) = 1 /\ Top.file = "a.h"
    /\ Top.includes = << <<"m.h">>, <<"b.h">> >>
    /\ Top.i = 2 /\ Top.res = <<FALSE>>
    /\ ~Contains(tree, "m.h")
    /\ Contains(tree, "b.h")
    /\ Top.dirs = {Sub}

----------------------------------------------------------------------------
(* C26 *)

\* what a call on base name t has returned to a call that is still active:
\* False for a name not in the tree, True for a file in progress (it stays
\* in progress as long as the caller is active), the verdict otherwise
ReturnedFor(t) ==
    IF ~Contains(tree, t) THEN FALSE
    ELSE IF ok_is_unset(tree, t) THEN TRUE
    ELSE is_ok_to_include(tree, t)

\* the comprehension of line 137 of the innermost call is through
ComprehensionOver ==
    pc = "loop" /\ stack # <<>> /\ Top.i > Len(Top.includes)

\* C26: the values an active call holds are those its calls on the base
\* names of its includes returned, one per include in order (False for an
\* absent name, True for a file in progress, the verdict otherwise), and
\* the verdict it records is their conjunction, True when there are none.
C26_VerdictIsConjunction ==
    /\ [](\A d \in 1..Len(stack) :
            /\ Len(stack[d].res) = stack[d].i - 1
            /\ \A k \in 1..Len(stack[d].res) :
                   stack[d].res[k]
                     = ReturnedFor(BaseName(stack[d].includes[k])))
    /\ [][ComprehensionOver =>
            tree'[Top.file].ok
              = << \A k \in 1..Len(Top.includes) : Top.res[k] >>]_vars

\* a.h includes b.h and m.h, b.h includes a.h: the call on b.h had True for
\* a.h, in progress, and b.h is true; a.h is false for m.h
C26_Witness ==
    /\ FirstCallOver /\ order[1] = Root \o <<"a.h">>
    /\ Includes("a.h") = << <<"b.h">>, <<"m.h">> >>
    /\ Contains(tree, "b.h") /\ Includes("b.h") = << <<"a.h">> >>
    /\ tree["b.h"].ok = <<TRUE>>
    /\ tree["a.h"].ok = <<FALSE>>

----------------------------------------------------------------------------
(* C27 *)

\* include text t of a file in directory dir names a file of the tree that
\* dir joined with t is not the path of
AddsDirectory(dir, t) ==
    /\ Contains(tree, BaseName(t))
    /\ Join(dir, t) # get_item_path(tree, BaseName(t))

\* C27: when a call goes on to process file p, its directory set, before
\* any of its calls, holds the registry directory of the file named by an
\* include text t exactly for the texts t whose base name is in the tree
\* and for which p's directory joined with t is not the registry path of
\* that name: a text the join reaches and a text of an absent name give no
\* directory.
C27_LocalDirectorySet ==
    [][Len(stack') = Len(stack) + 1 =>
        LET f == stack'[Len(stack')]
            dir == Parent(get_item_path(tree, f.file))
        IN /\ \A k \in 1..Len(f.includes) :
                 AddsDirectory(dir, f.includes[k]) =>
                   Parent(get_item_path(tree, BaseName(f.includes[k])))
                     \in f.dirs
           /\ \A d \in f.dirs :
                 \E k \in 1..Len(f.includes) :
                     /\ AddsDirectory(dir, f.includes[k])
                     /\ d = Parent(get_item_path(tree,
                                                 BaseName(f.includes[k])))
       ]_vars

\* the call on root/a.h has read "sub/b.h", which the join reaches, and
\* "m.h", which is in no directory: its directory set is empty
C27_Witness ==
    /\ Len(stack) = 1 /\ Top.file = "a.h" /\ Top.i = 1
    /\ Top.includes = << <<"sub", "b.h">>, <<"m.h">> >>
    /\ Contains(tree, "b.h")
    /\ Top.dirs = {}

----------------------------------------------------------------------------
(* C28 *)

\* C28: in a run, whatever the number of top-level calls and whatever the
\* files include (each other, themselves, one file several times),
\* get_includes is called at most once on the file of each registry entry.
C28_ReadAtMostOnce ==
    \A p \in DOMAIN reads : reads[p] <= 1

\* the run has returned; a.h and c.h both include b.h, b.h includes itself,
\* and each of the three was read once
C28_Witness ==
    /\ pc = "returned"
    /\ Cardinality(DOMAIN tree) = 3
    /\ Includes("a.h") = << <<"b.h">> >>
    /\ Includes("c.h") = << <<"b.h">> >>
    /\ Includes("b.h") = << <<"b.h">>, <<"b.h">> >>
    /\ \A p \in disk : p \in DOMAIN reads /\ reads[p] = 1
    /\ Len(order) = 3

----------------------------------------------------------------------------
(* C29 *)

\* C29: no step of a run adds a name to the tree, takes one out of it, or
\* changes the path of an item: in every state the tree holds the names
\* and paths it was merged with, and only the seen flags and the verdicts
\* differ.
C29_EntriesAndPathsKept ==
    /\ [](/\ DOMAIN tree = DOMAIN TreeOf(disk)
          /\ \A n \in DOMAIN tree : tree[n].path = TreeOf(disk)[n].path)
    /\ [][/\ DOMAIN tree' = DOMAIN tree
          /\ \A n \in DOMAIN tree : tree'[n].path = tree[n].path]_vars

\* the run over the three headers has returned: every item is seen and has
\* a verdict, and has the path it was inserted with
C29_Witness ==
    /\ pc = "returned"
    /\ disk = DiskFiles /\ Len(order) = 3
    /\ \A n \in DOMAIN tree : tree[n].seen /\ tree[n].ok # <<>>
    /\ \A p \in disk : tree[BaseName(p)].path = p
    /\ Len(files_to_be_written) = 1

----------------------------------------------------------------------------

\* no registry file read so far includes itself, directly or transitively
Acyclic == \A n \in DOMAIN tree : n \notin Grow(Targets(n) \cap DOMAIN tree)

\* n is recorded resolvable although a file of its include closure has an
\* include that is in no tree
TrueOverMissing(n) ==
    /\ Contains(tree, n)
    /\ tree[n].ok = <<TRUE>>
    /\ \E g \in Closure(n) : MissingTarget(g)

\* g is in a call of the thread that waits, marked seen and not decided
UndecidedInWaiting(g) ==
    /\ threads.waiting # <<>>
    /\ \E k \in 1..Len(threads.waiting.stack) :
           threads.waiting.stack[k].file = g
    /\ has_been_seen(tree, g)
    /\ ok_is_unset(tree, g)

\* a thread was ended by a read that failed, inside its call
Died ==
    \/ pc = "raised"
    \/ threads.waiting # <<>> /\ threads.waiting.pc = "raised"

\* C30: when no include cycle exists, a file is recorded resolvable over a
\* missing include of its closure only where two threads work on the tree
\* and the calls of one did not all run to their return before the other's
\* (a thread was preempted inside a call of dependency_ok, or ended inside
\* one); the run of one thread never leaves that record.
C30_RaceOnSeenMark ==
    \A n \in DOMAIN tree :
        (Acyclic /\ TrueOverMissing(n)) =>
            /\ threads.waiting # <<>>
            /\ threads.preemptions > 0 \/ Died

\* two interleaved calls leave it: with no cycle, n is recorded resolvable
\* over a missing include of its closure, and a file n includes is still
\* undecided in a call of the preempted thread
C30_Witness ==
    /\ Acyclic
    /\ threads.preemptions > 0
    /\ ~Died
    /\ \E n \in DOMAIN tree :
        /\ TrueOverMissing(n)
        /\ \E g \in Targets(n) \ {n} :
            /\ UndecidedInWaiting(g)
            /\ \E h \in Closure(g) : MissingTarget(h)

----------------------------------------------------------------------------
(* C31 *)

\* C31: after result = a | b, the result holds all elements of a and of b
\* (those of b where both hold a name), the result is another object than
\* a, and a holds the entries it held before.
C31_OrLeavesSelfAlone ==
    merged # <<>> =>
        LET a == merged.args[1][1]
            b == merged.args[2][1]
        IN /\ Entries(merged.tree)
                = Entries(regs[b].tree)
                    \cup {e \in Entries(merged.self_before) :
                             e[1] \notin Keys(regs[b].tree)}
           /\ merged.object # a
           /\ Entries(regs[a].tree) = Entries(merged.self_before)

----------------------------------------------------------------------------
(* C32 *)

\* the double quotes of s
QuotesOf(s) == {k \in 1..Len(s) : s[k] = "\""}

\* what stands between the first two double quotes of s, trimmed
QuotedTarget(s) ==
    LET q1 == CHOOSE k \in QuotesOf(s) : \A j \in QuotesOf(s) : k <= j
        q2 == CHOOSE k \in QuotesOf(s) \ {q1} :
                 \A j \in QuotesOf(s) \ {q1} : k <= j
    IN strip(SubSeq(s, q1 + 1, q2 - 1))

\* the line, trimmed, starts with the include token and carries a
\* double-quoted target that has no space in it
CarriesTarget(raw) ==
    /\ startswith_include(strip(raw))
    /\ Cardinality(QuotesOf(strip(raw))) >= 2
    /\ ~In(" ", QuotedTarget(strip(raw)))

\* the loop has just passed a line
Passed == extract'.n = extract.n + 1

\* C32: every line that, trimmed, starts with the include token and carries
\* a double-quoted target without a space in it adds that target to the end
\* of the list, and every other line (one whose target is in angle
\* brackets, one whose quoted target holds a space) adds nothing.
C32_OneTargetPerQuotedLine ==
    [][Passed =>
         extract'.includes =
            IF CarriesTarget(extract.line[1])
            THEN Append(extract.includes,
                        QuotedTarget(strip(extract.line[1])))
            ELSE extract.includes]_vars

----------------------------------------------------------------------------
(* C33 *)

\* no file of the include closure of n has an include that is in no tree
ClosureComplete(n) == \A g \in Closure(n) : ~MissingTarget(g)

\* C33: when the driver is through and the include graph has no cycle,
\* every file that was visited has a verdict, and it is true exactly when
\* every include target of its transitive include closure has its base
\* name in the registry; the order in which the driver reached the headers
\* makes no difference.
C33_AcyclicVerdictIsClosure ==
    (pc = "returned" /\ Acyclic) =>
        \A n \in DOMAIN tree :
            has_been_seen(tree, n) => tree[n].ok = <<ClosureComplete(n)>>

\* the driver is through on an acyclic graph where a file whose own
\* includes are all in the registry is false for a missing include further
\* down, next to a file that is true
C33_Witness ==
    /\ pc = "returned" /\ Acyclic
    /\ \E n \in DOMAIN tree :
        /\ tree[n].ok = <<FALSE>>
        /\ Targets(n) # {} /\ ~MissingTarget(n)
        /\ \E g \in Closure(n) \ {n} : MissingTarget(g)
    /\ \E n \in DOMAIN tree : tree[n].ok = <<TRUE>>

----------------------------------------------------------------------------
(* C34 *)

\* n is on an include cycle
OnCycle(n) == n \in Grow(Targets(n) \cap DOMAIN tree)

\* C34: whatever the include graph, cycles or not, a file with recorded
\* verdict false has in its transitive include closure an include target
\* whose base name is absent from the registry.
C34_FalseHasMissingTarget ==
    \A n \in DOMAIN tree :
        tree[n].ok = <<FALSE>> => \E g \in Closure(n) : MissingTarget(g)

\* a file on an include cycle, its own includes all in the registry, is
\* false for the missing include of another file of the cycle, and a file
\* on a cycle is true
C34_Witness ==
    /\ \E n \in DOMAIN tree :
        /\ OnCycle(n)
        /\ tree[n].ok = <<FALSE>>
        /\ ~MissingTarget(n)
        /\ \E g \in Closure(n) \ {n} : OnCycle(g) /\ MissingTarget(g)
    /\ \E n \in DOMAIN tree : OnCycle(n) /\ tree[n].ok = <<TRUE>>

----------------------------------------------------------------------------
(* C35 *)

\* the files the top-level calls that are over have reached through
\* includes that are in the registry
ReachedByCallsOver ==
    UNION {Closure(BaseName(order[k])) :
             k \in {j \in 1..Len(order) : stack = <<>> \/ j < Len(order)}}

\* a call returns to its caller
CallReturns == Len(stack') = Len(stack) - 1 /\ pc' = "loop"

\* C35: a call returns only when it has called dependency_ok on every one
\* of its includes, also after one of them returned False; so once a
\* top-level call is over, every registry file reachable from its file
\* through includes in the registry is seen and has a verdict, and when the
\* loop of line 88 comes to such a file it passes over it: no call, no
\* change of the tree, nothing written.
C35_AllIncludesEvaluated ==
    /\ [](pc # "raised" =>
            \A g \in ReachedByCallsOver :
                has_been_seen(tree, g) /\ ~ok_is_unset(tree, g))
    /\ [][CallReturns => Len(Top.res) = Len(Top.includes)]_vars
    /\ [][\A f \in todo \ todo' :
             BaseName(f) \in ReachedByCallsOver =>
                 /\ stack' = <<>>
                 /\ tree' = tree
                 /\ reads' = reads
                 /\ files_to_be_written' = files_to_be_written]_vars

\* the first top-level call found an include missing and went on to the
\* next include, a registry file; the loop has since passed over that file
C35_Witness ==
    /\ Len(order) = 2 /\ stack = <<>> /\ pc = "loop"
    /\ LET f == BaseName(order[1])
           g == BaseName(order[2])
       IN /\ g # f
          /\ \E j, k \in 1..Len(Includes(f)) :
                /\ j < k
                /\ ~Contains(tree, BaseName(Includes(f)[j]))
                /\ BaseName(Includes(f)[k]) = g
          /\ tree[f].ok = <<FALSE>>
          /\ has_been_seen(tree, g) /\ ~ok_is_unset(tree, g)
          /\ reads[get_item_path(tree, g)] = 1
          /\ order[2] \notin Range(files_to_be_written)

----------------------------------------------------------------------------
(* C36 *)

\* C36: for every path in the output list, the registry entry of its base
\* name holds that path: the file that was read to decide is the file that
\* is written, also where two headers of the include path have one name.
C36_WrittenPathIsRegistryPath ==
    \A k \in 1..Len(files_to_be_written) :
        LET f == files_to_be_written[k]
        IN /\ get_item_path(tree, BaseName(f)) = f
           /\ f \in DOMAIN reads

====
